---- MODULE Spec2Model ----
(***************************************************************************)
(* Block-level document comparison (src/src/utils/blockComparison.js).     *)
(*                                                                         *)
(* A document is the sequence of its top-level block elements (p, table,   *)
(* img).  A string is a sequence of one-character strings.  One behaviour  *)
(* is one call of compareDocumentBlocks(leftHtml, rightHtml): extraction,  *)
(* the two matching passes, the three classification loops, and the return *)
(* (or the catch handler when a step throws).                              *)
(***************************************************************************)
EXTENDS Integers, Sequences, FiniteSets, TLC

\* Longest document (number of top-level blocks) drawn as an input.
MaxBlocks == 2

Max(a, b) == IF a >= b THEN a ELSE b
Min(a, b) == IF a <= b THEN a ELSE b

-----------------------------------------------------------------------------
(* Strings *)

IsSpace(c) == c = " "

RECURSIVE TrimStart(_)
TrimStart(s) ==
    IF s # <<>> /\ IsSpace(Head(s)) THEN TrimStart(Tail(s)) ELSE s

RECURSIVE TrimEnd(_)
TrimEnd(s) ==
    IF s # <<>> /\ IsSpace(s[Len(s)]) THEN TrimEnd(SubSeq(s, 1, Len(s) - 1)) ELSE s

\* String.prototype.trim
Trim(s) == TrimEnd(TrimStart(s))

\* String.prototype.substring(from, to), 0-based, out-of-range arguments
\* clamped and swapped when from > to.
Substring(s, from, to) ==
    LET a == Max(0, Min(from, Len(s)))
        b == Max(0, Min(to, Len(s)))
    IN  SubSeq(s, Min(a, b) + 1, Max(a, b))

\* String.prototype.lastIndexOf(c), 0-based, -1 when absent.
RECURSIVE LastIndexOf(_, _)
LastIndexOf(s, c) ==
    IF s = <<>> THEN -1
    ELSE IF s[Len(s)] = c THEN Len(s) - 1
    ELSE LastIndexOf(SubSeq(s, 1, Len(s) - 1), c)

ToLowerChar(c) ==
    CASE c = "A" -> "a" [] c = "B" -> "b" [] c = "C" -> "c" [] OTHER -> c

\* s.replace(/\s+/g, '-').toLowerCase()
RECURSIVE Slug(_)
Slug(s) ==
    IF s = <<>> THEN <<>>
    ELSE IF IsSpace(Head(s))
         THEN <<"-">> \o Slug(TrimStart(s))
         ELSE <<ToLowerChar(Head(s))>> \o Slug(Tail(s))

RECURSIVE Concat(_)
Concat(ss) == IF ss = <<>> THEN <<>> ELSE Head(ss) \o Concat(Tail(ss))

\* b.charCodeAt(0)
CharCode(c) ==
    CASE c = " " -> 32 [] c = "&" -> 38 [] c = "-" -> 45 [] c = "." -> 46
      [] c = "/" -> 47 [] c = ";" -> 59 [] c = "<" -> 60 [] c = ">" -> 62
      [] c = "a" -> 97 [] c = "b" -> 98 [] c = "c" -> 99 [] c = "d" -> 100
      [] OTHER -> 120

\* A 32-bit integer is kept as its two 16-bit halves [hi, lo].
Half == 65536

\* ((a << 5) - a) + code, then a & a: 31 * a + code modulo 2^32.
HashStep(a, code) ==
    LET lo == a.lo * 31 + code
    IN  [hi |-> (a.hi * 31 + lo \div Half) % Half, lo |-> lo % Half]

\* Math.abs of the signed 32-bit value: the magnitude, as two halves.
Abs32(a) ==
    IF a.hi < Half \div 2 THEN a
    ELSE [hi |-> (Half - a.hi - (IF a.lo = 0 THEN 0 ELSE 1)) % Half,
          lo |-> (Half - a.lo) % Half]

\* content.split('').reduce((a, b) => { a = ((a << 5) - a) + b.charCodeAt(0);
\*                                      return a & a; }, 0)
RECURSIVE HashFrom(_, _)
HashFrom(a, s) ==
    IF s = <<>> THEN a
    ELSE HashFrom(HashStep(a, CharCode(Head(s))), Tail(s))

-----------------------------------------------------------------------------
(* The diff primitive (diff-match-patch): a diff is a sequence of           *)
(* [op, text] with op 0 (equal), -1 (delete), 1 (insert).                   *)

DIFF_DELETE == -1
DIFF_INSERT == 1
DIFF_EQUAL == 0

Op(o, t) == [op |-> o, text |-> t]

RECURSIVE CommonPrefixLen(_, _)
CommonPrefixLen(a, b) ==
    IF a = <<>> \/ b = <<>> \/ Head(a) # Head(b) THEN 0
    ELSE 1 + CommonPrefixLen(Tail(a), Tail(b))

RECURSIVE CommonSuffixLen(_, _)
CommonSuffixLen(a, b) ==
    IF a = <<>> \/ b = <<>> \/ a[Len(a)] # b[Len(b)] THEN 0
    ELSE 1 + CommonSuffixLen(SubSeq(a, 1, Len(a) - 1), SubSeq(b, 1, Len(b) - 1))

\* long.indexOf(short), 1-based start of the first occurrence, 0 when absent.
IndexOf(long, short) ==
    LET starts == { i \in 1..(Len(long) - Len(short) + 1) :
                       SubSeq(long, i, i + Len(short) - 1) = short }
    IN  IF starts = {} THEN 0 ELSE CHOOSE i \in starts : \A j \in starts : i <= j

RECURSIVE LcsLen(_, _)
LcsLen(a, b) ==
    IF a = <<>> \/ b = <<>> THEN 0
    ELSE IF Head(a) = Head(b) THEN 1 + LcsLen(Tail(a), Tail(b))
    ELSE Max(LcsLen(Tail(a), b), LcsLen(a, Tail(b)))

\* diff_bisect: a shortest edit script of a into b, one character per op.
RECURSIVE Bisect(_, _)
Bisect(a, b) ==
    IF a = <<>> THEN (IF b = <<>> THEN <<>> ELSE <<Op(DIFF_INSERT, b)>>)
    ELSE IF b = <<>> THEN <<Op(DIFF_DELETE, a)>>
    ELSE IF Head(a) = Head(b)
         THEN <<Op(DIFF_EQUAL, <<Head(a)>>)>> \o Bisect(Tail(a), Tail(b))
    ELSE IF LcsLen(Tail(a), b) >= LcsLen(a, Tail(b))
         THEN <<Op(DIFF_DELETE, <<Head(a)>>)>> \o Bisect(Tail(a), b)
         ELSE <<Op(DIFF_INSERT, <<Head(b)>>)>> \o Bisect(a, Tail(b))

\* Texts of the ops of one kind, concatenated.
RECURSIVE TextOf(_, _)
TextOf(diffs, kinds) ==
    IF diffs = <<>> THEN <<>>
    ELSE (IF Head(diffs).op \in kinds THEN Head(diffs).text ELSE <<>>)
            \o TextOf(Tail(diffs), kinds)

\* Length of the leading run of non-equal ops.
RECURSIVE EditRunLen(_)
EditRunLen(diffs) ==
    IF diffs = <<>> \/ Head(diffs).op = DIFF_EQUAL THEN 0
    ELSE 1 + EditRunLen(Tail(diffs))

\* Length of the leading run of equal ops.
RECURSIVE EqualRunLen(_)
EqualRunLen(diffs) ==
    IF diffs = <<>> \/ Head(diffs).op # DIFF_EQUAL THEN 0
    ELSE 1 + EqualRunLen(Tail(diffs))

\* diff_cleanupMerge: adjacent equalities become one; every run of edits
\* becomes one delete followed by one insert; empty ops are dropped.
RECURSIVE CleanupMerge(_)
CleanupMerge(diffs) ==
    IF diffs = <<>> THEN <<>>
    ELSE IF Head(diffs).op = DIFF_EQUAL
         THEN LET n == EqualRunLen(diffs)
                  t == TextOf(SubSeq(diffs, 1, n), {DIFF_EQUAL})
              IN  (IF t = <<>> THEN <<>> ELSE <<Op(DIFF_EQUAL, t)>>)
                     \o CleanupMerge(SubSeq(diffs, n + 1, Len(diffs)))
         ELSE LET n == EditRunLen(diffs)
                  d == TextOf(SubSeq(diffs, 1, n), {DIFF_DELETE})
                  i == TextOf(SubSeq(diffs, 1, n), {DIFF_INSERT})
              IN  (IF d = <<>> THEN <<>> ELSE <<Op(DIFF_DELETE, d)>>)
                     \o (IF i = <<>> THEN <<>> ELSE <<Op(DIFF_INSERT, i)>>)
                     \o CleanupMerge(SubSeq(diffs, n + 1, Len(diffs)))

\* diff_compute: the two texts share no prefix and no suffix.
DiffCompute(text1, text2) ==
    IF text1 = <<>> THEN <<Op(DIFF_INSERT, text2)>>
    ELSE IF text2 = <<>> THEN <<Op(DIFF_DELETE, text1)>>
    ELSE LET long  == IF Len(text1) > Len(text2) THEN text1 ELSE text2
             short == IF Len(text1) > Len(text2) THEN text2 ELSE text1
             o     == IF Len(text1) > Len(text2) THEN DIFF_DELETE ELSE DIFF_INSERT
             i     == IndexOf(long, short)
         IN  IF i # 0
             THEN << Op(o, SubSeq(long, 1, i - 1)),
                     Op(DIFF_EQUAL, short),
                     Op(o, SubSeq(long, i + Len(short), Len(long))) >>
             ELSE IF Len(short) = 1
             THEN << Op(DIFF_DELETE, text1), Op(DIFF_INSERT, text2) >>
             ELSE Bisect(text1, text2)

\* dmp.diff_main(text1, text2)
DiffMain(text1, text2) ==
    IF text1 = text2
    THEN (IF text1 = <<>> THEN <<>> ELSE <<Op(DIFF_EQUAL, text1)>>)
    ELSE LET p  == CommonPrefixLen(text1, text2)
             a1 == SubSeq(text1, p + 1, Len(text1))
             b1 == SubSeq(text2, p + 1, Len(text2))
             s  == CommonSuffixLen(a1, b1)
             a2 == SubSeq(a1, 1, Len(a1) - s)
             b2 == SubSeq(b1, 1, Len(b1) - s)
         IN  CleanupMerge(<<Op(DIFF_EQUAL, SubSeq(text1, 1, p))>>
                            \o DiffCompute(a2, b2)
                            \o <<Op(DIFF_EQUAL, SubSeq(a1, Len(a1) - s + 1, Len(a1)))>>)

\* dmp.diff_levenshtein(diffs): per run of edits, the larger of the inserted
\* and the deleted length.
RECURSIVE LevenshteinFrom(_, _, _, _)
LevenshteinFrom(diffs, levenshtein, insertions, deletions) ==
    IF diffs = <<>> THEN levenshtein + Max(insertions, deletions)
    ELSE LET d == Head(diffs)
         IN  CASE d.op = DIFF_INSERT ->
                    LevenshteinFrom(Tail(diffs), levenshtein,
                                    insertions + Len(d.text), deletions)
               [] d.op = DIFF_DELETE ->
                    LevenshteinFrom(Tail(diffs), levenshtein,
                                    insertions, deletions + Len(d.text))
               [] OTHER ->
                    LevenshteinFrom(Tail(diffs),
                                    levenshtein + Max(insertions, deletions), 0, 0)

DiffLevenshtein(diffs) == LevenshteinFrom(diffs, 0, 0, 0)

\* Inserted-or-deleted length of the run of edits that ends at position k.
RECURSIVE EditLenBefore(_, _)
EditLenBefore(diffs, k) ==
    IF k < 1 \/ diffs[k].op = DIFF_EQUAL THEN [ins |-> 0, del |-> 0]
    ELSE LET r == EditLenBefore(diffs, k - 1)
         IN  IF diffs[k].op = DIFF_INSERT
             THEN [ins |-> r.ins + Len(diffs[k].text), del |-> r.del]
             ELSE [ins |-> r.ins, del |-> r.del + Len(diffs[k].text)]

\* Inserted-or-deleted length of the run of edits that starts at position k.
RECURSIVE EditLenAfter(_, _)
EditLenAfter(diffs, k) ==
    IF k > Len(diffs) \/ diffs[k].op = DIFF_EQUAL THEN [ins |-> 0, del |-> 0]
    ELSE LET r == EditLenAfter(diffs, k + 1)
         IN  IF diffs[k].op = DIFF_INSERT
             THEN [ins |-> r.ins + Len(diffs[k].text), del |-> r.del]
             ELSE [ins |-> r.ins, del |-> r.del + Len(diffs[k].text)]

\* dmp.diff_cleanupSemantic(diffs): an equality no longer than the edits on
\* both of its sides is turned into a delete and an insert of its text, and
\* the result is merged, until no such equality is left.
RECURSIVE DiffCleanupSemantic(_)
DiffCleanupSemantic(diffs) ==
    LET small == { k \in 1..Len(diffs) :
                     /\ diffs[k].op = DIFF_EQUAL
                     /\ LET b == EditLenBefore(diffs, k - 1)
                            a == EditLenAfter(diffs, k + 1)
                        IN  /\ Len(diffs[k].text) <= Max(b.ins, b.del)
                            /\ Len(diffs[k].text) <= Max(a.ins, a.del) }
    IN  IF small = {} THEN diffs
        ELSE LET k == CHOOSE i \in small : \A j \in small : i <= j
             IN  DiffCleanupSemantic(CleanupMerge(
                    SubSeq(diffs, 1, k - 1)
                       \o << Op(DIFF_DELETE, diffs[k].text),
                             Op(DIFF_INSERT, diffs[k].text) >>
                       \o SubSeq(diffs, k + 1, Len(diffs))))

-----------------------------------------------------------------------------
(* Documents and block extraction *)

\* A parsed top-level element: tag, textContent, src attribute, the texts of
\* its cells (tables), and its layout box.  The containers are detached from
\* the page, so every layout box is 0 x 0.
P(text) ==
    [tag |-> "p", text |-> text, src |-> <<>>, cells |-> <<>>, w |-> 0, h |-> 0]
Img(src) ==
    [tag |-> "img", text |-> <<>>, src |-> src, cells |-> <<>>, w |-> 0, h |-> 0]
Table(cells) ==
    [tag |-> "table", text |-> Concat(cells), src |-> <<>>, cells |-> cells,
     w |-> 0, h |-> 0]

\* The elements documents are built from.
Elements ==
    { P(<<"a">>), P(<<" ", "a">>), P(<<"a", "<">>), P(<<"b">>),
      Table(<<<<"a">>, <<"b">>>>),
      Img(<<"a">>), Img(<<"b">>) }

\* All documents of at most n top-level blocks.
Documents(n) == UNION { [1..k -> Elements] : k \in 0..n }

MinWidth == 300
MinHeight == 40
MinHeightImg == 100
IdContentLen == 30
IdSlugLen == 15
IdCellLen == 20

Unknown == <<"u", "n", "k", "n", "o", "w", "n">>
TableWord == <<"t", "a", "b", "l", "e">>

\* generateBlockId(element), first definition
generateBlockId(element) ==
    LET content == Substring(Trim(element.text), 0, IdContentLen)
    IN  IF element.tag = "img"
        THEN LET name == Substring(element.src,
                                   LastIndexOf(element.src, "/") + 1,
                                   LastIndexOf(element.src, "."))
             IN  [prefix |-> "img", hash |-> [hi |-> 0, lo |-> 0],
                  text |-> IF name = <<>> THEN Unknown ELSE name]
        ELSE IF element.tag = "table"
        THEN LET cellContent ==
                    IF element.cells # <<>>
                    THEN Substring(Trim(element.cells[1]), 0, IdCellLen)
                    ELSE TableWord
             IN  [prefix |-> "table", hash |-> [hi |-> 0, lo |-> 0], text |-> Slug(cellContent)]
        ELSE [prefix |-> "p", hash |-> Abs32(HashFrom([hi |-> 0, lo |-> 0], content)),
              text |-> Substring(Slug(content), 0, IdSlugLen)]

\* createBlockInfo(element); pos is the element's position among its
\* parent's children (1-based), which is also the identity of the block
\* object (ref) within its list.
createBlockInfo(element, pos) ==
    [ type    |-> element.tag,
      element |-> element,
      content |-> element.text,
      width   |-> Max(element.w, MinWidth),
      height  |-> Max(element.h, IF element.tag = "img" THEN MinHeightImg ELSE MinHeight),
      id      |-> generateBlockId(element),
      index   |-> pos - 1,
      ref     |-> pos ]

\* extractBlocks(container)
extractBlocks(doc) == [i \in 1..Len(doc) |-> createBlockInfo(doc[i], i)]

-----------------------------------------------------------------------------
(* Scores: a similarity is the fraction num / den, den > 0. *)

Score(n, d) == [num |-> n, den |-> d]
One == Score(1, 1)
Zero == Score(0, 1)
ScoreGt(a, b) == a.num * b.den > b.num * a.den

\* A threshold of 0: every candidate of a positive score is accepted.
SimilarityThresholdZero == Score(0, 10)

\* The threshold of the second pass, 0.2
SimilarityThreshold == Score(2, 10)

\* calculateTextSimilarity(text1, text2)
calculateTextSimilarity(text1, text2) ==
    IF text1 = <<>> /\ text2 = <<>> THEN One
    ELSE IF text1 = <<>> \/ text2 = <<>> THEN Zero
    ELSE LET diffs       == DiffMain(Trim(text1), Trim(text2))
             levenshtein == DiffLevenshtein(diffs)
             maxLength   == Max(Len(text1), Len(text2))
         IN  IF maxLength > 0
             THEN Score(Max(0, maxLength - levenshtein), maxLength)
             ELSE Zero

\* The score findBestMatch gives one candidate of the block's type.
CandidateScore(block, candidate) ==
    IF block.type = "img"
    THEN (IF block.element.src = candidate.element.src THEN One ELSE Zero)
    ELSE calculateTextSimilarity(block.content, candidate.content)

\* findBestMatch's loop without the test of the candidate's type.
RECURSIVE BestFromAnyType(_, _, _, _)
BestFromAnyType(block, candidates, k, best) ==
    IF k > Len(candidates) THEN best
    ELSE LET score == CandidateScore(block, candidates[k])
         IN  IF ScoreGt(score, best.score)
             THEN BestFromAnyType(block, candidates, k + 1, [at |-> k, score |-> score])
             ELSE BestFromAnyType(block, candidates, k + 1, best)

\* findBestMatch's loop that keeps the first candidate of a score above 0 and
\* looks at no later one.
RECURSIVE BestFromFirst(_, _, _, _)
BestFromFirst(block, candidates, k, best) ==
    IF k > Len(candidates) THEN best
    ELSE IF block.type # candidates[k].type
         THEN BestFromFirst(block, candidates, k + 1, best)
    ELSE LET score == CandidateScore(block, candidates[k])
         IN  IF best.at = 0 /\ ScoreGt(score, best.score)
             THEN BestFromFirst(block, candidates, k + 1, [at |-> k, score |-> score])
             ELSE BestFromFirst(block, candidates, k + 1, best)

\* findBestMatch(block, candidates): the first candidate of the highest
\* score above 0; block is 0 (null) when there is none.
RECURSIVE BestFrom(_, _, _, _)
BestFrom(block, candidates, k, best) ==
    IF k > Len(candidates) THEN best
    ELSE IF block.type # candidates[k].type
         THEN BestFrom(block, candidates, k + 1, best)
    ELSE LET score == CandidateScore(block, candidates[k])
         IN  IF ScoreGt(score, best.score)
             THEN BestFrom(block, candidates, k + 1, [at |-> k, score |-> score])
             ELSE BestFrom(block, candidates, k + 1, best)

findBestMatch(block, candidates) ==
    BestFrom(block, candidates, 1, [at |-> 0, score |-> Zero])

-----------------------------------------------------------------------------
(* matchBlocksBySimilarity *)

\* findIndex that returns the last entry with the id instead of the first.
FindIndexByIdLast(list, id) ==
    LET hits == { i \in 1..Len(list) : list[i].id = id }
    IN  IF hits = {} THEN 0 ELSE CHOOSE i \in hits : \A j \in hits : i >= j

\* list.findIndex(b => b.id === id), 1-based, 0 when absent.
FindIndexById(list, id) ==
    LET hits == { i \in 1..Len(list) : list[i].id = id }
    IN  IF hits = {} THEN 0 ELSE CHOOSE i \in hits : \A j \in hits : i <= j

\* if (index >= 0) list.splice(index, 1)
SpliceAt(list, i) ==
    IF i = 0 THEN list ELSE SubSeq(list, 1, i - 1) \o SubSeq(list, i + 1, Len(list))

\* Removal that takes every entry with the block's id out of the list
\* (list.filter(b => b.id !== block.id)).
RemoveMatchedAll(list, block) ==
    SelectSeq(list, LAMBDA b : b.id # block.id)

\* Removal of a matched block from a working list: the first entry with
\* the block's id goes.
RemoveMatched(list, block) == SpliceAt(list, FindIndexById(list, block.id))

\* The predicate of the first pass.
IsExactMatch(rightBlock, leftBlock) ==
    /\ rightBlock.type = leftBlock.type
    /\ Trim(rightBlock.content) = Trim(leftBlock.content)

\* find that returns the last right block satisfying the predicate.
FindExactMatchLast(rightList, leftBlock) ==
    LET hits == { i \in 1..Len(rightList) : IsExactMatch(rightList[i], leftBlock) }
    IN  IF hits = {} THEN 0 ELSE CHOOSE i \in hits : \A j \in hits : i >= j

\* rightUnmatched.find(...), 1-based position, 0 when undefined.
FindExactMatch(rightList, leftBlock) ==
    LET hits == { i \in 1..Len(rightList) : IsExactMatch(rightList[i], leftBlock) }
    IN  IF hits = {} THEN 0 ELSE CHOOSE i \in hits : \A j \in hits : i <= j

\* First pass: leftBlocks.forEach(...) from position k on.
RECURSIVE ExactPassFrom(_, _, _)
ExactPassFrom(lbs, k, st) ==
    IF k > Len(lbs) THEN st
    ELSE LET leftBlock == lbs[k]
             j == FindExactMatch(st.rightUnmatched, leftBlock)
         IN  IF j = 0 THEN ExactPassFrom(lbs, k + 1, st)
             ELSE LET exactMatch == st.rightUnmatched[j]
                  IN  ExactPassFrom(lbs, k + 1,
                        [ matches |-> Append(st.matches,
                              [left |-> leftBlock, right |-> exactMatch,
                               similarity |-> One]),
                          leftUnmatched  |-> RemoveMatched(st.leftUnmatched, leftBlock),
                          rightUnmatched |-> RemoveMatched(st.rightUnmatched, exactMatch) ])

\* Second pass: [...leftUnmatched].forEach(...) over the snapshot, from k on.
RECURSIVE SimilarityPassFrom(_, _, _)
SimilarityPassFrom(snapshot, k, st) ==
    IF k > Len(snapshot) THEN st
    ELSE LET leftBlock == snapshot[k]
             bestMatch == findBestMatch(leftBlock, st.rightUnmatched)
         IN  IF ScoreGt(bestMatch.score, SimilarityThreshold)
             THEN LET block == st.rightUnmatched[bestMatch.at]
                  IN  SimilarityPassFrom(snapshot, k + 1,
                        [ matches |-> Append(st.matches,
                              [left |-> leftBlock, right |-> block,
                               similarity |-> bestMatch.score]),
                          leftUnmatched  |-> RemoveMatched(st.leftUnmatched, leftBlock),
                          rightUnmatched |-> RemoveMatched(st.rightUnmatched, block) ])
             ELSE SimilarityPassFrom(snapshot, k + 1, st)

-----------------------------------------------------------------------------
(* Classification: the nodes appended to the two result containers *)

\* Markup is a sequence of characters and tags; a tag is one item.
SpanAdded == "<span class=word-added>"
SpanDeleted == "<span class=word-deleted>"
SpanEnd == "</span>"
IndicatorDeleted == "<div>DELETED</div>"
IndicatorAdded == "<div>ADDED</div>"
IndicatorModified == "<div>MODIFIED</div>"
PlaceholderRemoved == "<div>Content Removed</div>"
PlaceholderAdded == "<div>Content Added</div>"
Tags ==
    { SpanAdded, SpanDeleted, SpanEnd, IndicatorDeleted, IndicatorAdded,
      IndicatorModified, PlaceholderRemoved, PlaceholderAdded }

EntityAmp == <<"&", "a", "m", "p", ";">>
EntityLt == <<"&", "l", "t", ";">>
EntityGt == <<"&", "g", "t", ";">>

\* escapeHtml that returns the text as it is (no entity is written).
escapeHtmlRaw(text) == text

\* escapeHtml(text): div.textContent = text; return div.innerHTML
RECURSIVE escapeHtml(_)
escapeHtml(text) ==
    IF text = <<>> THEN <<>>
    ELSE (CASE Head(text) = "&" -> EntityAmp
            [] Head(text) = "<" -> EntityLt
            [] Head(text) = ">" -> EntityGt
            [] OTHER -> <<Head(text)>>) \o escapeHtml(Tail(text))

StartsWith(s, prefix) ==
    Len(s) >= Len(prefix) /\ SubSeq(s, 1, Len(prefix)) = prefix

\* Markup after the first ">" of s; nothing when there is none.
RECURSIVE AfterTagClose(_)
AfterTagClose(s) ==
    IF s = <<>> THEN <<>>
    ELSE IF Head(s) = ">" THEN Tail(s)
    ELSE AfterTagClose(Tail(s))

\* The literal text of markup assigned to innerHTML (its textContent): tags
\* carry no text, entities are decoded, a bare "<" opens a tag.
RECURSIVE LiteralText(_)
LiteralText(html) ==
    IF html = <<>> THEN <<>>
    ELSE IF Head(html) \in Tags THEN LiteralText(Tail(html))
    ELSE IF StartsWith(html, EntityAmp)
         THEN <<"&">> \o LiteralText(SubSeq(html, Len(EntityAmp) + 1, Len(html)))
    ELSE IF StartsWith(html, EntityLt)
         THEN <<"<">> \o LiteralText(SubSeq(html, Len(EntityLt) + 1, Len(html)))
    ELSE IF StartsWith(html, EntityGt)
         THEN <<">">> \o LiteralText(SubSeq(html, Len(EntityGt) + 1, Len(html)))
    ELSE IF Head(html) = "<" THEN LiteralText(AfterTagClose(Tail(html)))
    ELSE <<Head(html)>> \o LiteralText(Tail(html))

\* A node of a result container.  width and height are the pixel sizes set
\* on its style (0: not set); origin is the block the node was cloned from
\* (side "none" for a placeholder, which is a new div).
Node(tag, classes, html, src, width, height, side, ref) ==
    [ tag |-> tag, classes |-> classes, html |-> html, src |-> src,
      width |-> width, height |-> height,
      origin |-> [side |-> side, ref |-> ref] ]

\* The markup the diff ops put on the left side.
RECURSIVE LeftMarkup(_)
LeftMarkup(diffs) ==
    IF diffs = <<>> THEN <<>>
    ELSE LET d == Head(diffs)
         IN  (CASE d.op = DIFF_DELETE ->
                     <<SpanDeleted>> \o escapeHtml(d.text) \o <<SpanEnd>>
                [] d.op = DIFF_EQUAL -> escapeHtml(d.text)
                [] OTHER -> <<>>) \o LeftMarkup(Tail(diffs))

\* The markup the diff ops put on the right side.
RECURSIVE RightMarkup(_)
RightMarkup(diffs) ==
    IF diffs = <<>> THEN <<>>
    ELSE LET d == Head(diffs)
         IN  (CASE d.op = DIFF_INSERT ->
                     <<SpanAdded>> \o escapeHtml(d.text) \o <<SpanEnd>>
                [] d.op = DIFF_EQUAL -> escapeHtml(d.text)
                [] OTHER -> <<>>) \o RightMarkup(Tail(diffs))

\* The text compareAndHighlightParagraphs diffs for one block.
ParagraphText(block) == Trim(block.content)

\* compareAndHighlightParagraphs(leftBlock, rightBlock)
compareAndHighlightParagraphs(leftBlock, rightBlock) ==
    LET diffs == DiffCleanupSemantic(
                    DiffMain(ParagraphText(leftBlock), ParagraphText(rightBlock)))
        hasChanges == \E k \in 1..Len(diffs) : diffs[k].op # DIFF_EQUAL
        classes == IF hasChanges THEN {"paragraph-modified"} ELSE {}
    IN  [ leftElement  |-> Node(leftBlock.type, classes, LeftMarkup(diffs),
                                leftBlock.element.src,
                                leftBlock.width, leftBlock.height,
                                "left", leftBlock.ref),
          rightElement |-> Node(rightBlock.type, classes, RightMarkup(diffs),
                                rightBlock.element.src,
                                rightBlock.width, rightBlock.height,
                                "right", rightBlock.ref),
          hasChanges   |-> hasChanges ]

\* block.element appended as it is (an unchanged table or image).
OriginalElement(block, side) ==
    Node(block.type, {}, escapeHtml(block.element.text), block.element.src,
         0, 0, side, block.ref)

\* createDeletedBlock(block)
createDeletedBlock(block) ==
    Node(block.type, {"block-deleted"},
         escapeHtml(block.element.text) \o <<IndicatorDeleted>>,
         block.element.src, block.width, block.height, "left", block.ref)

\* createAddedBlock(block)
createAddedBlock(block) ==
    Node(block.type, {"block-added"},
         escapeHtml(block.element.text) \o <<IndicatorAdded>>,
         block.element.src, block.width, block.height, "right", block.ref)

\* createModifiedBlock(block, side)
createModifiedBlock(block, side) ==
    Node(block.type, {"block-modified"},
         escapeHtml(block.element.text) \o <<IndicatorModified>>,
         block.element.src, block.width, block.height, side, block.ref)

\* createPlaceholder(block, type)
createPlaceholder(block, type) ==
    Node("div", {"block-placeholder", "placeholder-" \o type},
         IF type = "deleted" THEN <<PlaceholderRemoved>> ELSE <<PlaceholderAdded>>,
         <<>>, block.width, block.height, "none", 0)

\* What the second branch of the matches loop compares: the src of an
\* image, the content of a table.
ComparedContent(block) ==
    IF block.type = "img" THEN block.element.src ELSE block.content

\* container.appendChild(node) for a node that may already be a child of the
\* container: the node is taken out of its place and put at the end, so a
\* container never holds one node twice.  An original element carries no
\* class and no size, which no clone does, so equal records are one node.
AppendChild(children, node) ==
    SelectSeq(children, LAMBDA n : n # node) \o <<node>>

\* matches.forEach(...) of performBlockComparison, from entry k on.
RECURSIVE ProcessMatchesFrom(_, _, _)
ProcessMatchesFrom(ms, k, acc) ==
    IF k > Len(ms) THEN acc
    ELSE LET left  == ms[k].left
             right == ms[k].right
         IN  IF left.type = "p" /\ right.type = "p"
             THEN LET r == compareAndHighlightParagraphs(left, right)
                  IN  ProcessMatchesFrom(ms, k + 1,
                        [ left    |-> Append(acc.left, r.leftElement),
                          right   |-> Append(acc.right, r.rightElement),
                          changes |-> acc.changes + (IF r.hasChanges THEN 1 ELSE 0) ])
             ELSE IF ComparedContent(left) # ComparedContent(right)
             THEN ProcessMatchesFrom(ms, k + 1,
                        [ left    |-> Append(acc.left, createModifiedBlock(left, "left")),
                          right   |-> Append(acc.right, createModifiedBlock(right, "right")),
                          changes |-> acc.changes + 1 ])
             ELSE ProcessMatchesFrom(ms, k + 1,
                        [ left    |-> AppendChild(acc.left, OriginalElement(left, "left")),
                          right   |-> AppendChild(acc.right, OriginalElement(right, "right")),
                          changes |-> acc.changes ])

-----------------------------------------------------------------------------
(* One call of compareDocumentBlocks *)

VARIABLES
    leftHtml,        \* the left document, as given
    rightHtml,       \* the right document, as given
    pc,              \* position in compareDocumentBlocks
    leftBlocks,      \* extractBlocks(leftDiv)
    rightBlocks,     \* extractBlocks(rightDiv)
    matches,         \* matchBlocksBySimilarity: matches
    leftUnmatched,   \* matchBlocksBySimilarity: leftUnmatched
    rightUnmatched,  \* matchBlocksBySimilarity: rightUnmatched
    firstPassCount,  \* number of matches the first pass recorded (history)
    leftContainer,   \* performBlockComparison: leftContainer's children
    rightContainer,  \* performBlockComparison: rightContainer's children
    summary,         \* performBlockComparison: summary
    thrown,          \* a step of the call has thrown
    result           \* the value compareDocumentBlocks returned

\* BlockComparisonView
VARIABLES
    leftDocument,      \* prop, as of the last render
    rightDocument,     \* prop, as of the last render
    comparisonResult,  \* state
    isLoading,         \* state
    timer,             \* the pending timeout: the documents its callback closed over
    effectDeps,        \* the dependencies the comparison effect last ran with
    changes,           \* number of times the parent has passed new documents
    cancelled          \* a clear has cancelled a pending timer (history)

viewVars ==
    << leftDocument, rightDocument, comparisonResult, isLoading, timer,
       effectDeps, changes, cancelled >>

compareVars ==
    << leftHtml, rightHtml, pc, leftBlocks, rightBlocks, matches, leftUnmatched,
       rightUnmatched, firstPassCount, leftContainer, rightContainer, summary,
       thrown, result >>

vars == << compareVars, viewVars >>

\* null
Null == [null |-> TRUE]

\* The view before it is mounted.
ViewIdle ==
    /\ leftDocument = Null
    /\ rightDocument = Null
    /\ comparisonResult = Null
    /\ isLoading = FALSE
    /\ timer = Null
    /\ effectDeps = Null
    /\ changes = 0
    /\ cancelled = FALSE

ZeroSummary == [additions |-> 0, deletions |-> 0, changes |-> 0]

\* The positions inside the try block of compareDocumentBlocks.
TryBlock ==
    { "start", "extracted", "exact", "matched", "matchesDone", "deletionsDone",
      "additionsDone" }

\* The positions at which a step is still to run.
Running ==
    { "start", "extracted", "exact", "matched", "matchesDone", "deletionsDone",
      "additionsDone" }

Init ==
    /\ leftHtml \in Documents(MaxBlocks)
    /\ rightHtml \in Documents(MaxBlocks)
    /\ pc = "start"
    /\ leftBlocks = <<>>
    /\ rightBlocks = <<>>
    /\ matches = <<>>
    /\ leftUnmatched = <<>>
    /\ rightUnmatched = <<>>
    /\ firstPassCount = 0
    /\ leftContainer = <<>>
    /\ rightContainer = <<>>
    /\ summary = ZeroSummary
    /\ thrown = FALSE
    /\ result = [leftHtml |-> <<>>, rightHtml |-> <<>>, summary |-> ZeroSummary]
    /\ ViewIdle

\* extractBlocks on both containers
Extract ==
    /\ pc = "start"
    /\ leftBlocks' = extractBlocks(leftHtml)
    /\ rightBlocks' = extractBlocks(rightHtml)
    /\ pc' = "extracted"
    /\ UNCHANGED << leftHtml, rightHtml, matches, leftUnmatched, rightUnmatched,
                    firstPassCount, leftContainer, rightContainer, summary,
                    thrown, result >>
    /\ UNCHANGED viewVars

\* matchBlocksBySimilarity: the copies and the whole first pass
ExactPass ==
    /\ pc = "extracted"
    /\ LET st == ExactPassFrom(leftBlocks, 1,
                    [ matches |-> <<>>, leftUnmatched |-> leftBlocks,
                      rightUnmatched |-> rightBlocks ])
       IN  /\ matches' = st.matches
           /\ leftUnmatched' = st.leftUnmatched
           /\ rightUnmatched' = st.rightUnmatched
           /\ firstPassCount' = Len(st.matches)
    /\ pc' = "exact"
    /\ UNCHANGED << leftHtml, rightHtml, leftBlocks, rightBlocks, leftContainer,
                    rightContainer, summary, thrown, result >>
    /\ UNCHANGED viewVars

\* matchBlocksBySimilarity: the whole second pass
SimilarityPass ==
    /\ pc = "exact"
    /\ LET st == SimilarityPassFrom(leftUnmatched, 1,
                    [ matches |-> matches, leftUnmatched |-> leftUnmatched,
                      rightUnmatched |-> rightUnmatched ])
       IN  /\ matches' = st.matches
           /\ leftUnmatched' = st.leftUnmatched
           /\ rightUnmatched' = st.rightUnmatched
    /\ pc' = "matched"
    /\ UNCHANGED << leftHtml, rightHtml, leftBlocks, rightBlocks, firstPassCount,
                    leftContainer, rightContainer, summary, thrown, result >>
    /\ UNCHANGED viewVars

\* performBlockComparison: matches.forEach
ProcessMatches ==
    /\ pc = "matched"
    /\ LET acc == ProcessMatchesFrom(matches, 1,
                     [left |-> <<>>, right |-> <<>>, changes |-> 0])
       IN  /\ leftContainer' = acc.left
           /\ rightContainer' = acc.right
           /\ summary' = [summary EXCEPT !.changes = acc.changes]
    /\ pc' = "matchesDone"
    /\ UNCHANGED << leftHtml, rightHtml, leftBlocks, rightBlocks, matches,
                    leftUnmatched, rightUnmatched, firstPassCount, thrown, result >>
    /\ UNCHANGED viewVars

\* performBlockComparison: leftUnmatched.forEach
ProcessLeftUnmatched ==
    /\ pc = "matchesDone"
    /\ leftContainer' = leftContainer \o
          [k \in 1..Len(leftUnmatched) |-> createDeletedBlock(leftUnmatched[k])]
    /\ rightContainer' = rightContainer \o
          [k \in 1..Len(leftUnmatched) |-> createPlaceholder(leftUnmatched[k], "deleted")]
    /\ summary' = [summary EXCEPT !.deletions = @ + Len(leftUnmatched)]
    /\ pc' = "deletionsDone"
    /\ UNCHANGED << leftHtml, rightHtml, leftBlocks, rightBlocks, matches,
                    leftUnmatched, rightUnmatched, firstPassCount, thrown, result >>
    /\ UNCHANGED viewVars

\* performBlockComparison: rightUnmatched.forEach
ProcessRightUnmatched ==
    /\ pc = "deletionsDone"
    /\ leftContainer' = leftContainer \o
          [k \in 1..Len(rightUnmatched) |-> createPlaceholder(rightUnmatched[k], "added")]
    /\ rightContainer' = rightContainer \o
          [k \in 1..Len(rightUnmatched) |-> createAddedBlock(rightUnmatched[k])]
    /\ summary' = [summary EXCEPT !.additions = @ + Len(rightUnmatched)]
    /\ pc' = "additionsDone"
    /\ UNCHANGED << leftHtml, rightHtml, leftBlocks, rightBlocks, matches,
                    leftUnmatched, rightUnmatched, firstPassCount, thrown, result >>
    /\ UNCHANGED viewVars

\* return { leftHtml: leftResult, rightHtml: rightResult, summary }
Return ==
    /\ pc = "additionsDone"
    /\ result' = [ leftHtml |-> leftContainer, rightHtml |-> rightContainer,
                   summary |-> summary ]
    /\ pc' = "done"
    /\ UNCHANGED << leftHtml, rightHtml, leftBlocks, rightBlocks, matches,
                    leftUnmatched, rightUnmatched, firstPassCount, leftContainer,
                    rightContainer, summary, thrown >>
    /\ UNCHANGED viewVars

\* A step throws: control goes to the catch clause when the step is inside
\* the try block, and out of compareDocumentBlocks otherwise.
Throw ==
    /\ pc \in Running
    /\ thrown' = TRUE
    /\ pc' = IF pc \in TryBlock THEN "catch" ELSE "raised"
    /\ UNCHANGED << leftHtml, rightHtml, leftBlocks, rightBlocks, matches,
                    leftUnmatched, rightUnmatched, firstPassCount, leftContainer,
                    rightContainer, summary, result >>
    /\ UNCHANGED viewVars

\* A catch clause that returns what the containers hold so far.
CatchReturnPartial ==
    [leftHtml |-> leftContainer, rightHtml |-> rightContainer, summary |-> summary]

\* The value the catch clause returns.
CatchReturn ==
    [leftHtml |-> leftHtml, rightHtml |-> rightHtml, summary |-> ZeroSummary]

\* catch (error) { ... return ... }
Catch ==
    /\ pc = "catch"
    /\ result' = CatchReturn
    /\ pc' = "done"
    /\ UNCHANGED << leftHtml, rightHtml, leftBlocks, rightBlocks, matches,
                    leftUnmatched, rightUnmatched, firstPassCount, leftContainer,
                    rightContainer, summary, thrown >>
    /\ UNCHANGED viewVars

Next ==
    \/ Extract
    \/ ExactPass
    \/ SimilarityPass
    \/ ProcessMatches
    \/ ProcessLeftUnmatched
    \/ ProcessRightUnmatched
    \/ Return
    \/ Throw
    \/ Catch

Spec == Init /\ [][Next]_vars

\* All documents of at most n top-level blocks taken from pool.
DocumentsOf(pool, n) == UNION { [1..k -> pool] : k \in 0..n }

\* The state on entry to compareDocumentBlocks, but for the two documents.
AtEntry ==
    /\ pc = "start"
    /\ leftBlocks = <<>>
    /\ rightBlocks = <<>>
    /\ matches = <<>>
    /\ leftUnmatched = <<>>
    /\ rightUnmatched = <<>>
    /\ firstPassCount = 0
    /\ leftContainer = <<>>
    /\ rightContainer = <<>>
    /\ summary = ZeroSummary
    /\ thrown = FALSE
    /\ result = [leftHtml |-> <<>>, rightHtml |-> <<>>, summary |-> ZeroSummary]
    /\ ViewIdle

\* Paragraphs of several lengths: an empty one, one of two spaces, and
\* texts at the similarities 0.2, 1/3, 0.4, 0.5 and 2/3 of one another.
TextElements ==
    { P(<<>>), P(<<" ", " ">>), P(<<"a">>), P(<<"a", "b">>), P(<<"a", "b", "c">>),
      P(<<"a", "b", "b", "b", "b">>) }

\* compareDocumentBlocks called on two documents of paragraphs.
InitText ==
    /\ leftHtml \in DocumentsOf(TextElements, MaxBlocks)
    /\ rightHtml \in DocumentsOf(TextElements, MaxBlocks)
    /\ AtEntry

SpecText == InitText /\ [][Next]_vars

\* Tables that share their first cell.
TableElements ==
    { Table(<<<<"a">>, <<"b">>>>), Table(<<<<"a">>, <<"c">>>>), P(<<"a">>) }

\* compareDocumentBlocks called on two documents of tables.
InitTables ==
    /\ leftHtml \in DocumentsOf(TableElements, MaxBlocks)
    /\ rightHtml \in DocumentsOf(TableElements, MaxBlocks)
    /\ AtEntry

SpecTables == InitTables /\ [][Next]_vars

-----------------------------------------------------------------------------
(* BlockComparisonView: the comparison effect *)

\* const x = v; F(x): v is evaluated once, and F works on its value.
With(v, F(_)) == CHOOSE y \in { F(x) : x \in {v} } : TRUE

\* matchBlocksBySimilarity(leftBlocks, rightBlocks)
matchBlocksBySimilarity(lbs, rbs) ==
    With(ExactPassFrom(lbs, 1,
            [matches |-> <<>>, leftUnmatched |-> lbs, rightUnmatched |-> rbs]),
         LAMBDA exact : SimilarityPassFrom(exact.leftUnmatched, 1, exact))

\* The three loops of performBlockComparison over what the matcher returned.
ProcessMatched(m) ==
    With(ProcessMatchesFrom(m.matches, 1, [left |-> <<>>, right |-> <<>>, changes |-> 0]),
         LAMBDA acc :
            LET lu == m.leftUnmatched
                ru == m.rightUnmatched
            IN  [ leftResult  |-> acc.left
                      \o [k \in 1..Len(lu) |-> createDeletedBlock(lu[k])]
                      \o [k \in 1..Len(ru) |-> createPlaceholder(ru[k], "added")],
                  rightResult |-> acc.right
                      \o [k \in 1..Len(lu) |-> createPlaceholder(lu[k], "deleted")]
                      \o [k \in 1..Len(ru) |-> createAddedBlock(ru[k])],
                  summary     |-> [ additions |-> Len(ru), deletions |-> Len(lu),
                                    changes |-> acc.changes ] ])

\* performBlockComparison(leftBlocks, rightBlocks)
performBlockComparison(lbs, rbs) ==
    With(matchBlocksBySimilarity(lbs, rbs), LAMBDA m : ProcessMatched(m))

\* compareDocumentBlocks(leftHtml, rightHtml) when no step throws.
compareDocumentBlocks(lh, rh) ==
    With(<<extractBlocks(lh), extractBlocks(rh)>>,
         LAMBDA blocks :
            With(performBlockComparison(blocks[1], blocks[2]),
                 LAMBDA r : [ leftHtml |-> r.leftResult, rightHtml |-> r.rightResult,
                              summary |-> r.summary ]))

\* What a call of compareDocumentBlocks may return: the comparison, or the
\* two documents as given when a step threw.  The call itself never throws,
\* so the catch clause of the timer callback is never entered.
CompareOutcomes(lh, rh) ==
    { compareDocumentBlocks(lh, rh),
      [leftHtml |-> lh, rightHtml |-> rh, summary |-> ZeroSummary] }

\* A document object as the view reads it.
Doc(html) == [originalHtmlContent |-> html]

\* The documents the parent passes; each pair of them compares to another
\* result.
ViewDocuments == { Doc(<< P(<<"a">>) >>), Doc(<< P(<<"b">>) >>) }

\* What comparing each pair of these documents may return.
Comparisons ==
    [ l \in ViewDocuments, r \in ViewDocuments |->
        CompareOutcomes(l.originalHtmlContent, r.originalHtmlContent) ]

\* The values of a document prop.
Props == ViewDocuments \cup {Null}

\* Number of times the parent passes new documents.
MaxChanges == 3

\* The state of the compareDocumentBlocks call besides its position.
NoCall ==
    /\ leftHtml = <<>>
    /\ rightHtml = <<>>
    /\ leftBlocks = <<>>
    /\ rightBlocks = <<>>
    /\ matches = <<>>
    /\ leftUnmatched = <<>>
    /\ rightUnmatched = <<>>
    /\ firstPassCount = 0
    /\ leftContainer = <<>>
    /\ rightContainer = <<>>
    /\ summary = ZeroSummary
    /\ thrown = FALSE
    /\ result = [leftHtml |-> <<>>, rightHtml |-> <<>>, summary |-> ZeroSummary]

\* The dependency array of the comparison effect as of the last render.
Deps == [left |-> leftDocument, right |-> rightDocument]

\* The view has rendered for the first time; no effect has run yet.
InitView ==
    /\ pc = "view"
    /\ NoCall
    /\ leftDocument \in Props
    /\ rightDocument \in Props
    /\ comparisonResult = Null
    /\ isLoading = FALSE
    /\ timer = Null
    /\ effectDeps = Null
    /\ changes = 0
    /\ cancelled = FALSE

\* The parent passes other documents and the view renders with them.  A
\* render is not started while an effect of the render before is still to
\* run: React flushes pending effects first.
SetDocuments(l, r) ==
    /\ pc = "view"
    /\ changes < MaxChanges
    /\ effectDeps = Deps
    /\ <<l, r>> # <<leftDocument, rightDocument>>
    /\ leftDocument' = l
    /\ rightDocument' = r
    /\ changes' = changes + 1
    /\ UNCHANGED << comparisonResult, isLoading, timer, effectDeps, cancelled >>
    /\ UNCHANGED compareVars

\* The comparison effect runs for the last render, whose dependencies
\* differ from those it last ran with: first the cleanup the run before
\* returned (clearTimeout of its timer), then the body.  Effects run after
\* the render is committed, as a step of their own.
RunEffect ==
    /\ pc = "view"
    /\ effectDeps # Deps
    /\ IF leftDocument = Null \/ rightDocument = Null
       THEN /\ comparisonResult' = Null
            /\ timer' = Null
            /\ UNCHANGED isLoading
       ELSE /\ isLoading' = TRUE
            /\ timer' = Deps
            /\ UNCHANGED comparisonResult
    /\ effectDeps' = Deps
    /\ cancelled' = (cancelled \/ (timer # Null /\ (leftDocument = Null \/ rightDocument = Null)))
    /\ UNCHANGED << leftDocument, rightDocument, changes >>
    /\ UNCHANGED compareVars

\* The state the timer callback sets without its finally clause.
TimerCallbackNoFinally(res) == [comparisonResult |-> res, isLoading |-> isLoading]

\* The state the timer callback sets, given what the comparison returned.
TimerCallback(res) == [comparisonResult |-> res, isLoading |-> FALSE]

\* The timeout fires: its callback compares the documents it closed over.
TimerFire ==
    /\ pc = "view"
    /\ timer # Null
    /\ \E res \in Comparisons[timer.left, timer.right] :
          /\ comparisonResult' = TimerCallback(res).comparisonResult
          /\ isLoading' = TimerCallback(res).isLoading
    /\ timer' = Null
    /\ UNCHANGED << leftDocument, rightDocument, effectDeps, changes, cancelled >>
    /\ UNCHANGED compareVars

NextView ==
    \/ \E l, r \in Props : SetDocuments(l, r)
    \/ RunEffect
    \/ TimerFire

\* A pending effect is run and a pending timeout fires, in time.
SpecView ==
    InitView /\ [][NextView]_vars /\ WF_vars(RunEffect) /\ WF_vars(TimerFire)

-----------------------------------------------------------------------------
(* Properties *)

\* The call ran to its return statement and no step threw.
Completed == pc = "done" /\ ~thrown

\* Number of entries of list that are the block object with identity ref.
Occurrences(list, ref) == Cardinality({ k \in 1..Len(list) : list[k].ref = ref })

\* Number of matches whose member on the given side is the block ref.
MatchesOf(side, ref) ==
    Cardinality({ k \in 1..Len(matches) :
                    (IF side = "left" THEN matches[k].left ELSE matches[k].right).ref = ref })

\* a is b followed by further entries, or b itself.
IsPrefix(a, b) == Len(a) <= Len(b) /\ SubSeq(b, 1, Len(a)) = a

\* C1: after matchBlocksBySimilarity every left block is the left member of
\* exactly one match or occurs exactly once in leftUnmatched, never both and
\* never neither, and likewise every right block on the right side.
C1_PartitionByIdentity ==
    pc = "matched" =>
        /\ \A r \in 1..Len(leftBlocks) :
              MatchesOf("left", r) + Occurrences(leftUnmatched, r) = 1
        /\ \A r \in 1..Len(rightBlocks) :
              MatchesOf("right", r) + Occurrences(rightUnmatched, r) = 1

\* C2: the matches of the first pass plus the matches of the second pass
\* plus the left (right) unmatched blocks count up to the left (right)
\* block list, after the first pass and after the second.
C2_CountCompleteness ==
    /\ pc = "exact" =>
          /\ Len(matches) = firstPassCount
          /\ firstPassCount + Len(leftUnmatched) = Len(leftBlocks)
          /\ firstPassCount + Len(rightUnmatched) = Len(rightBlocks)
    /\ pc = "matched" =>
          /\ firstPassCount <= Len(matches)
          /\ firstPassCount + (Len(matches) - firstPassCount) + Len(leftUnmatched)
                = Len(leftBlocks)
          /\ firstPassCount + (Len(matches) - firstPassCount) + Len(rightUnmatched)
                = Len(rightBlocks)

\* C2 witness: the second pass recorded a match, and the removal by id took
\* another block out of leftUnmatched than the one matched, which is still
\* listed.
C2_Witness ==
    /\ pc = "matched"
    /\ Len(matches) > firstPassCount
    /\ \E k \in 1..Len(matches) : Occurrences(leftUnmatched, matches[k].left.ref) = 1

\* C3: the returned summary has changes equal to the number of pairs of the
\* second pass, deletions equal to |leftUnmatched|, additions equal to
\* |rightUnmatched|, and a pair of the first pass is emitted without a
\* modified annotation.
C3_SummaryConsistency ==
    Completed =>
        /\ result.summary.changes = Len(matches) - firstPassCount
        /\ result.summary.deletions = Len(leftUnmatched)
        /\ result.summary.additions = Len(rightUnmatched)
        /\ \A k \in 1..firstPassCount :
              /\ result.leftHtml[k].classes = {}
              /\ result.rightHtml[k].classes = {}

\* The nodes of one returned sequence that were cloned from a block of the
\* given side keep that side's document order.
InDocumentOrder(nodes, side) ==
    \A i, j \in 1..Len(nodes) :
        (i < j /\ nodes[i].origin.side = side /\ nodes[j].origin.side = side)
            => nodes[i].origin.ref <= nodes[j].origin.ref

\* C4: in the returned left sequence the entries that come from a left
\* block are in left-document order, and in the right sequence the entries
\* that come from a right block are in right-document order.
C4_OrderPreservation ==
    Completed =>
        /\ InDocumentOrder(result.leftHtml, "left")
        /\ InDocumentOrder(result.rightHtml, "right")

\* C5: comparing a document with itself pairs every block with the block at
\* the same position, all in the first pass, leaves nothing unmatched and
\* returns the summary 0, 0, 0.
C5_Idempotence ==
    (Completed /\ leftHtml = rightHtml) =>
        /\ Len(matches) = Len(leftBlocks)
        /\ firstPassCount = Len(matches)
        /\ \A k \in 1..Len(matches) :
              /\ matches[k].left = leftBlocks[k]
              /\ matches[k].right = rightBlocks[k]
        /\ leftUnmatched = <<>>
        /\ rightUnmatched = <<>>
        /\ result.summary = ZeroSummary

\* C5 witness: a document of two blocks with the same id was compared with
\* itself.
C5_Witness ==
    /\ Completed
    /\ leftHtml = rightHtml
    /\ Len(leftBlocks) = 2
    /\ leftBlocks[1].id = leftBlocks[2].id
    /\ leftBlocks[1].content # leftBlocks[2].content

\* C6: no exception leaves compareDocumentBlocks, and when a step has thrown
\* the value returned is the two documents as given with the summary 0, 0, 0.
C6_FailOpen ==
    /\ pc # "raised"
    /\ (pc = "done" /\ thrown) =>
          /\ result.leftHtml = leftHtml
          /\ result.rightHtml = rightHtml
          /\ result.summary = ZeroSummary

\* C6 witness: a step threw after nodes had been appended and changes had
\* been counted, and the call has returned.
C6_Witness ==
    /\ pc = "done"
    /\ thrown
    /\ leftContainer # <<>>
    /\ summary # ZeroSummary

\* The matched pairs of paragraphs, once the matches loop has run.
ParagraphPairs ==
    IF pc \in {"matchesDone", "deletionsDone", "additionsDone"}
    THEN { k \in 1..Len(matches) :
             matches[k].left.type = "p" /\ matches[k].right.type = "p" }
    ELSE {}

C8_SameTypeOnly ==
    /\ pc \in {"exact", "matched"} =>
          \A k \in 1..Len(matches) : matches[k].left.type = matches[k].right.type
    /\ ( /\ Completed
         /\ Len(leftBlocks) = 1
         /\ Len(rightBlocks) = 1
         /\ leftBlocks[1].type # rightBlocks[1].type ) =>
          /\ matches = <<>>
          /\ result.summary = [additions |-> 1, deletions |-> 1, changes |-> 0]

\* C8 witness: an image and a paragraph whose text is the image's src were
\* compared.
C8_Witness ==
    /\ Completed
    /\ Len(leftBlocks) = 1
    /\ Len(rightBlocks) = 1
    /\ leftBlocks[1].type = "img"
    /\ rightBlocks[1].type = "p"
    /\ rightBlocks[1].content = leftBlocks[1].element.src

\* The blocks of list from position n + 1 on.
Further(list, n) == SubSeq(list, n + 1, Len(list))

\* C9: when the right block list is the left one followed by k further
\* blocks, every left block is matched in the first pass, the k further
\* blocks are exactly rightUnmatched, and the summary is k, 0, 0; with the
\* documents swapped the summary is 0, k, 0.
C9_PureAdditionDeletion ==
    /\ (Completed /\ IsPrefix(leftHtml, rightHtml)) =>
          /\ firstPassCount = Len(leftBlocks)
          /\ \A r \in 1..Len(leftBlocks) : MatchesOf("left", r) = 1
          /\ leftUnmatched = <<>>
          /\ rightUnmatched = Further(rightBlocks, Len(leftBlocks))
          /\ result.summary = [ additions |-> Len(rightBlocks) - Len(leftBlocks),
                                deletions |-> 0, changes |-> 0 ]
    /\ (Completed /\ IsPrefix(rightHtml, leftHtml)) =>
          /\ firstPassCount = Len(rightBlocks)
          /\ \A r \in 1..Len(rightBlocks) : MatchesOf("right", r) = 1
          /\ rightUnmatched = <<>>
          /\ leftUnmatched = Further(leftBlocks, Len(rightBlocks))
          /\ result.summary = [ additions |-> 0,
                                deletions |-> Len(leftBlocks) - Len(rightBlocks),
                                changes |-> 0 ]

\* C9 witness: the right document is the left one followed by one block
\* that resembles the left block.
C9_Witness ==
    /\ Completed
    /\ Len(leftHtml) = 1
    /\ Len(rightHtml) = 2
    /\ IsPrefix(leftHtml, rightHtml)
    /\ rightBlocks[2].type = leftBlocks[1].type
    /\ rightBlocks[2].id = leftBlocks[1].id

\* The comparison key of a block: the src of an image, the trimmed text of
\* a paragraph or a table.
CompareKey(block) ==
    IF block.type = "img" THEN block.element.src ELSE Trim(block.content)

\* C10: after the first pass every recorded pair has members of one type
\* and equal comparison keys, the key of an image being its src, and both
\* members of a pair are out of the unmatched lists.
C10_ExactPassOnKey ==
    pc = "exact" =>
        \A k \in 1..Len(matches) :
            /\ matches[k].left.type = matches[k].right.type
            /\ CompareKey(matches[k].left) = CompareKey(matches[k].right)
            /\ Occurrences(leftUnmatched, matches[k].left.ref) = 0
            /\ Occurrences(rightUnmatched, matches[k].right.ref) = 0

-----------------------------------------------------------------------------
(* Properties of the second pass *)

\* The positions in matches of the pairs the second pass recorded.
SecondPassPairs ==
    IF pc = "matched" THEN (firstPassCount + 1)..Len(matches) ELSE {}

\* One block against one block of the same type and of another key.
OneAgainstOne ==
    /\ Len(leftBlocks) = 1
    /\ Len(rightBlocks) = 1
    /\ leftBlocks[1].type = rightBlocks[1].type
    /\ CompareKey(leftBlocks[1]) # CompareKey(rightBlocks[1])

\* C11 as stated: every pair the second pass records has a similarity
\* strictly greater than 0.6, and one block against one block of the same
\* type at a similarity of at most 0.6 ends as one deletion and one
\* addition, not as a change.
C11_ThresholdSixTenths ==
    /\ \A k \in SecondPassPairs :
          ScoreGt(CandidateScore(matches[k].left, matches[k].right), Score(6, 10))
    /\ ( /\ pc = "matched"
         /\ OneAgainstOne
         /\ ~ScoreGt(CandidateScore(leftBlocks[1], rightBlocks[1]), Score(6, 10)) ) =>
          /\ matches = <<>>
          /\ leftUnmatched = leftBlocks
          /\ rightUnmatched = rightBlocks

\* C11 amended: every pair the second pass records has a similarity
\* strictly greater than 0.2, and one block against one block of the same
\* type at a similarity of at most 0.2 ends in leftUnmatched and
\* rightUnmatched, not as a pair.
C11_ThresholdTwoTenths ==
    /\ \A k \in SecondPassPairs :
          ScoreGt(CandidateScore(matches[k].left, matches[k].right), Score(2, 10))
    /\ ( /\ pc = "matched"
         /\ OneAgainstOne
         /\ ~ScoreGt(CandidateScore(leftBlocks[1], rightBlocks[1]), Score(2, 10)) ) =>
          /\ matches = <<>>
          /\ leftUnmatched = leftBlocks
          /\ rightUnmatched = rightBlocks

\* C11 witness: the second pass recorded a pair and left unmatched two
\* paragraphs whose similarity is exactly 0.2 and not 0.
C11_Witness ==
    /\ SecondPassPairs # {}
    /\ \E i \in 1..Len(leftUnmatched), j \in 1..Len(rightUnmatched) :
          LET score == CandidateScore(leftUnmatched[i], rightUnmatched[j])
          IN  /\ leftUnmatched[i].type = rightUnmatched[j].type
              /\ score.num * 10 = 2 * score.den

\* The positions in rightUnmatched of the candidates of block's type whose
\* similarity to block exceeds the threshold.
AboveThreshold(block) ==
    { j \in 1..Len(rightUnmatched) :
        /\ rightUnmatched[j].type = block.type
        /\ ScoreGt(CandidateScore(block, rightUnmatched[j]), Score(2, 10)) }

\* The second pass, taken on a state with blocks left over on the left,
\* pairs the first of them with the right block at position j of
\* rightUnmatched as it was before the pass; j = 0: with none.
FirstLeftPairedWith(j) ==
    /\ pc = "exact"
    /\ pc' = "matched"
    /\ leftUnmatched # <<>>
    /\ IF j = 0
       THEN \A k \in (firstPassCount + 1)..Len(matches') :
               matches'[k].left.ref # leftUnmatched[1].ref
       ELSE /\ Len(matches') > firstPassCount
            /\ matches'[firstPassCount + 1].left = leftUnmatched[1]
            /\ matches'[firstPassCount + 1].right = rightUnmatched[j]

\* C12 as stated: the first left block the second pass takes is paired with
\* the earliest right block of its type in rightUnmatched whose similarity
\* exceeds the threshold, whatever the later candidates score, and with
\* none when no candidate exceeds it.
C12_FirstAboveThreshold ==
    [][ (pc = "exact" /\ pc' = "matched" /\ leftUnmatched # <<>>) =>
          LET above == AboveThreshold(leftUnmatched[1])
          IN  IF above = {} THEN FirstLeftPairedWith(0)
              ELSE FirstLeftPairedWith(CHOOSE j \in above : \A i \in above : j <= i)
      ]_vars

\* C12 amended: the first left block the second pass takes is paired with
\* the right block of its type in rightUnmatched of the highest similarity,
\* the earliest of them when several score the same, provided that
\* similarity exceeds the threshold, and with none otherwise.
C12_HighestAboveThreshold ==
    [][ (pc = "exact" /\ pc' = "matched" /\ leftUnmatched # <<>>) =>
          LET block == leftUnmatched[1]
              above == AboveThreshold(block)
              s(j)  == CandidateScore(block, rightUnmatched[j])
          IN  IF above = {} THEN FirstLeftPairedWith(0)
              ELSE FirstLeftPairedWith(
                      CHOOSE j \in above :
                          \A i \in above : /\ ~ScoreGt(s(i), s(j))
                                            /\ (i < j => ScoreGt(s(j), s(i))))
      ]_vars

\* C12 witness: the one left block had two candidates above the threshold,
\* the later with the higher similarity, and it is the later one it was
\* paired with.
C12_Witness ==
    /\ pc = "matched"
    /\ firstPassCount = 0
    /\ Len(leftBlocks) = 1
    /\ Len(rightBlocks) = 2
    /\ ScoreGt(CandidateScore(leftBlocks[1], rightBlocks[1]), Score(2, 10))
    /\ ScoreGt(CandidateScore(leftBlocks[1], rightBlocks[2]),
               CandidateScore(leftBlocks[1], rightBlocks[1]))
    /\ Len(matches) = 1
    /\ matches[1].right = rightBlocks[2]

\* C13: no pair the second pass records has a member whose key is empty
\* (a text that is empty or all whitespace): neither two such blocks nor one
\* of them with a block of a non-empty key.
C13_EmptyKeysNeverFuzzy ==
    \A k \in SecondPassPairs :
        /\ CompareKey(matches[k].left) # <<>>
        /\ CompareKey(matches[k].right) # <<>>

-----------------------------------------------------------------------------
(* Properties of the two output sequences *)

\* The entries performBlockComparison has processed so far.
Processed ==
    (IF pc \in {"matchesDone", "deletionsDone", "additionsDone"}
     THEN Len(matches) ELSE 0)
    + (IF pc \in {"deletionsDone", "additionsDone"} THEN Len(leftUnmatched) ELSE 0)
    + (IF pc = "additionsDone" THEN Len(rightUnmatched) ELSE 0)

\* node is a placeholder of the given kind with the size of block.
IsPlaceholderFor(node, block, type) ==
    /\ node.classes = {"block-placeholder", "placeholder-" \o type}
    /\ node.width = block.width
    /\ node.height = block.height

\* C14: while performBlockComparison runs, both output sequences hold one
\* node per entry processed so far (in the end matches + leftUnmatched +
\* rightUnmatched nodes each); at the position of a leftUnmatched block the
\* left node is that block marked deleted and the right node a placeholder
\* of its width and height, and at the position of a rightUnmatched block
\* the right node is that block marked added and the left node a
\* placeholder of its width and height.
C14_PositionAlignment ==
    pc \in {"matchesDone", "deletionsDone", "additionsDone"} =>
        /\ Len(leftContainer) = Processed
        /\ Len(rightContainer) = Processed
        /\ pc \in {"deletionsDone", "additionsDone"} =>
              \A k \in 1..Len(leftUnmatched) :
                  /\ leftContainer[Len(matches) + k] = createDeletedBlock(leftUnmatched[k])
                  /\ IsPlaceholderFor(rightContainer[Len(matches) + k],
                                      leftUnmatched[k], "deleted")
        /\ pc = "additionsDone" =>
              \A k \in 1..Len(rightUnmatched) :
                  LET at == Len(matches) + Len(leftUnmatched) + k
                  IN  /\ rightContainer[at] = createAddedBlock(rightUnmatched[k])
                      /\ IsPlaceholderFor(leftContainer[at], rightUnmatched[k], "added")

-----------------------------------------------------------------------------
(* Properties of single functions *)

\* No two blocks of list have one id.
UniqueIds(list) ==
    \A i, j \in 1..Len(list) : i # j => list[i].id # list[j].id

\* C15: no two blocks returned by one extractBlocks call have the same id.
C15_UniqueBlockIds ==
    pc = "extracted" => UniqueIds(leftBlocks) /\ UniqueIds(rightBlocks)

\* The edit distance of two strings: the Levenshtein cost of their diff.
EditDistance(a, b) == DiffLevenshtein(DiffMain(a, b))

\* The similarity as stated: edit distance and lengths of the same strings.
SimilarityAsStated(a, b) ==
    IF a = <<>> /\ b = <<>> THEN One
    ELSE IF a = <<>> \/ b = <<>> THEN Zero
    ELSE Score(Max(0, Max(Len(a), Len(b)) - EditDistance(a, b)), Max(Len(a), Len(b)))

\* Two fractions are one number.
ScoreEq(x, y) == x.num * y.den = y.num * x.den

\* The pairs of texts the second pass may pass to calculateTextSimilarity.
TextPairs ==
    IF pc \in {"extracted", "exact"}
    THEN { <<leftBlocks[i].content, rightBlocks[j].content>> :
              i \in 1..Len(leftBlocks), j \in 1..Len(rightBlocks) }
    ELSE {}

\* C16: calculateTextSimilarity(a, b) is 1 when both strings are empty, 0
\* when exactly one is, and otherwise max(0, 1 - editDistance(a, b) /
\* max(len(a), len(b))) over the same two strings; it lies in [0, 1] and
\* is 1 only when the edit distance of a and b is 0.
C16_SimilarityScore ==
    \A t \in TextPairs :
        LET score == calculateTextSimilarity(t[1], t[2])
        IN  /\ ScoreEq(score, SimilarityAsStated(t[1], t[2]))
            /\ ~ScoreGt(Zero, score)
            /\ ~ScoreGt(score, One)
            /\ ScoreEq(score, One) => EditDistance(t[1], t[2]) = 0

-----------------------------------------------------------------------------
(* Properties of BlockComparisonView *)

\* Both documents are there.
BothPresent == leftDocument # Null /\ rightDocument # Null

\* res is a result of comparing the documents of the last render.
ForCurrentPair(res) ==
    /\ BothPresent
    /\ res \in Comparisons[leftDocument, rightDocument]

\* C17: whenever a result is committed to comparisonResult, it is the
\* result computed for the document pair the view holds at that time; the
\* result of a comparison started for an earlier pair is never committed.
C17_StaleDiscarded ==
    [][ (comparisonResult' # comparisonResult /\ comparisonResult' # Null)
          => ForCurrentPair(comparisonResult') ]_vars

\* The view shows the result for the documents of the last render.
Resolved == ~isLoading /\ ForCurrentPair(comparisonResult)

\* C18: whenever both documents are present, either they change again or
\* isLoading becomes false with comparisonResult holding the result for
\* that pair; the view is never left with both documents present and
\* isLoading true forever.
C18_LoadingResolves ==
    /\ \A l, r \in ViewDocuments :
          (leftDocument = l /\ rightDocument = r)
              ~> (Resolved \/ leftDocument # l \/ rightDocument # r)
    /\ ~<>[](BothPresent /\ isLoading)

\* C18 witness: a clear cancelled a pending timer, leaving isLoading true,
\* and the view has since got both documents and shows their result.
C18_Witness ==
    /\ cancelled
    /\ effectDeps = Deps
    /\ Resolved

====
